---- MODULE Spec2Model ----
(***************************************************************************)
(* Model of NemeTextWidget (src/nemetextwidget.py): the modal key handler  *)
(* keyPressEvent, setMode, the number prefix and the escape chord, on top  *)
(* of a flat text buffer with a caret, as the Scintilla component keeps it.*)
(* Offsets are 0-based document positions; text[p + 1] is the character at *)
(* offset p.                                                               *)
(***************************************************************************)
EXTENDS Integers, Sequences, FiniteSets, TLC

\* ---------------------------------------------------------------- bounds
\* longest run of digit keys the model lets the user type
MaxDigits == 2
\* largest repeat count the model lets the user type
MaxCount == 33
\* longest document the model lets the buffer grow to, unless it started longer
MaxLen == 2
\* lines scrolled by one page-up / page-down (window height)
PageLines == 2
\* undo steps the model follows where a key sequence can undo
MaxUndo == 1

\* ------------------------------------------------------ program constants
BACKSPACE_LINES == 5
RETURN_LINES == 5
ESCAPEFIRST == "k"
ESCAPESECOND == "j"

NL == "\n"
TAB == "\t"
\* the component's tabWidth(), which is also its indentation width
TabWidth == 8
None == "None"
Modes == {"Typing", "Movement", "Command", "ReplaceChar", "FindChar"}

\* keys of the number row, as enums.NUMSETKEYS maps them to their digit
NUMSETKEYS == [k \in {"Key_0", "Key_1", "Key_3"} |->
                 CASE k = "Key_0" -> "0" [] k = "Key_1" -> "1" [] k = "Key_3" -> "3"]

DigitValue(d) == CASE d = "0" -> 0 [] d = "1" -> 1 [] d = "2" -> 2 [] d = "3" -> 3
                   [] d = "4" -> 4 [] d = "5" -> 5 [] d = "6" -> 6 [] d = "7" -> 7
                   [] d = "8" -> 8 [] d = "9" -> 9

\* int(''.join(numberList)): decimal value of a sequence of digit strings
RECURSIVE IntOfDigits(_)
IntOfDigits(ds) ==
    IF ds = <<>> THEN 0
    ELSE 10 * IntOfDigits(SubSeq(ds, 1, Len(ds) - 1)) + DigitValue(ds[Len(ds)])

Min(a, b) == IF a < b THEN a ELSE b
Max(a, b) == IF a > b THEN a ELSE b

\* ------------------------------------------------------- buffer geometry
\* QsciScintilla.lines()
Lines(t) == 1 + Cardinality({q \in 1..Len(t) : t[q] = NL})

\* SCI_LINEFROMPOSITION
LineOfPos(t, pos) == Cardinality({q \in 1..pos : t[q] = NL})

\* SCI_POSITIONFROMLINE: start offset of a line (document end beyond the last)
PosOfLine(t, line) ==
    IF line <= 0 THEN 0
    ELSE IF line >= Lines(t) THEN Len(t)
    ELSE CHOOSE p \in 1..Len(t) :
            t[p] = NL /\ Cardinality({q \in 1..p : t[q] = NL}) = line

LineStart(t, pos) == PosOfLine(t, LineOfPos(t, pos))

\* SCI_GETLINEENDPOSITION: offset just before the line's terminator
LineEnd(t, pos) ==
    CHOOSE p \in pos..Len(t) :
        (p = Len(t) \/ t[p + 1] = NL) /\ \A q \in (pos + 1)..p : t[q] # NL

\* QsciScintilla.lineLength(line): length including the terminator
LineLength(t, line) ==
    IF line >= Lines(t) THEN 0
    ELSE PosOfLine(t, line + 1) - PosOfLine(t, line)

\* QsciScintilla.positionFromLineIndex: SCI_POSITIONFROMLINE, then index
\* times SCI_POSITIONAFTER (which does not stop at the end of the line)
PositionFromLineIndex(t, line, index) ==
    Min(Len(t), PosOfLine(t, line) + Max(0, index))

\* QsciScintilla.text(line): the line with its terminator, empty beyond the last
TextOfLine(t, line) ==
    IF line < 0 \/ line >= Lines(t) THEN <<>>
    ELSE SubSeq(t, PosOfLine(t, line) + 1, PosOfLine(t, line + 1))

\* str.lstrip(): without its leading whitespace
RECURSIVE LStrip(_)
LStrip(str) ==
    IF str # <<>> /\ str[1] \in {" ", NL} THEN LStrip(Tail(str)) ELSE str

\* QsciScintilla.getCursorPosition
CursorLine(s) == LineOfPos(s.text, s.cursor)
CursorIndex(s) == s.cursor - LineStart(s.text, s.cursor)

InsertText(t, pos, str) == SubSeq(t, 1, pos) \o str \o SubSeq(t, pos + 1, Len(t))
DeleteRange(t, from, to) == SubSeq(t, 1, from) \o SubSeq(t, to + 1, Len(t))

\* ------------------------------------------------- character classes
IsSpace(c) == c = " "
PlainLetters == {"a", "b", "c", "d", "e", "f", "g", "i", "j", "k", "l", "o",
                 "r", "s", "t", "u", "v", "w", "x", "y", "z"}
ShiftLetters == {"A", "B", "C", "D", "E", "F", "I", "J", "K", "O", "V", "W", "X",
                 "Y"}
IsWordChar(c) == c \in PlainLetters \cup ShiftLetters \cup {"0", "1", "2", "3", "_"}
\* Scintilla's CharClassify: 0 space, 1 new line, 2 word, 3 punctuation
CharClass(c) == IF IsSpace(c) THEN 0 ELSE IF c = NL THEN 1
                ELSE IF IsWordChar(c) THEN 2 ELSE 3
ClassAt(t, p) == CharClass(t[p + 1])

\* least q >= p that is the document end or whose character is not of class cls
SkipFwd(t, p, cls) ==
    CHOOSE q \in p..Len(t) :
        (q = Len(t) \/ ClassAt(t, q) # cls) /\ \A r \in p..(q - 1) : ClassAt(t, r) = cls

\* greatest q <= p that is 0 or whose preceding character is not of class cls
SkipBack(t, p, cls) ==
    CHOOSE q \in 0..p :
        (q = 0 \/ ClassAt(t, q - 1) # cls) /\ \A r \in (q + 1)..p : ClassAt(t, r - 1) = cls

\* Scintilla Document::NextWordStart(pos, delta)
NextWordStart(t, pos, delta) ==
    IF delta < 0
    THEN LET p1 == SkipBack(t, pos, 0)
         IN IF p1 > 0 THEN SkipBack(t, p1, ClassAt(t, p1 - 1)) ELSE p1
    ELSE IF pos >= Len(t) THEN pos
         ELSE SkipFwd(t, SkipFwd(t, pos, ClassAt(t, pos)), 0)

\* Scintilla Document::NextWordEnd(pos, delta)
NextWordEnd(t, pos, delta) ==
    IF delta < 0
    THEN IF pos > 0
         THEN LET cc == ClassAt(t, pos - 1)
                  p1 == IF cc # 0 THEN SkipBack(t, pos, cc) ELSE pos
              IN SkipBack(t, p1, 0)
         ELSE pos
    ELSE LET p1 == SkipFwd(t, pos, 0)
         IN IF p1 < Len(t) THEN SkipFwd(t, p1, ClassAt(t, p1)) ELSE p1

\* first non-blank offset of the line holding pos (SCI_VCHOME target)
FirstNonBlank(t, pos) ==
    LET ls == LineStart(t, pos)
        le == LineEnd(t, pos)
    IN Min(SkipFwd(t, ls, 0), le)

\* caret after SCI_LINEUP / SCI_LINEDOWN: same column, clamped to the line
LineMove(t, pos, d) ==
    LET line == LineOfPos(t, pos)
        col == pos - LineStart(t, pos)
        target == line + d
    IN IF target < 0 \/ target >= Lines(t) THEN pos
       ELSE LET ts == PosOfLine(t, target)
            IN Min(ts + col, LineEnd(t, ts))

RECURSIVE LinesMove(_, _, _, _)
LinesMove(t, pos, d, n) ==
    IF n = 0 THEN pos ELSE LinesMove(t, LineMove(t, pos, d), d, n - 1)

\* ------------------------------------------------- Scintilla messages
Prims == {"CHARLEFT", "CHARRIGHT", "LINEUP", "LINEDOWN", "PAGEUP", "PAGEDOWN",
          "HOME", "VCHOME", "LINEEND", "WORDRIGHT", "WORDLEFT", "WORDRIGHTEND",
          "WORDLEFTEND", "DELETEBACK", "LINEDELETE", "GOTOLINE", "GOTOPOS",
          "findWORDPosition"}
NoneIssued == [p \in Prims |-> 0]

\* caret and text after one SendScintilla(message, arg)
PrimCursor(s, prim, arg) ==
    LET t == s.text
        c == s.cursor
    IN CASE prim = "CHARLEFT" -> Max(0, c - 1)
         [] prim = "CHARRIGHT" -> Min(Len(t), c + 1)
         [] prim = "LINEUP" -> LineMove(t, c, -1)
         [] prim = "LINEDOWN" -> LineMove(t, c, 1)
         [] prim = "PAGEUP" -> LinesMove(t, c, -1, PageLines)
         [] prim = "PAGEDOWN" -> LinesMove(t, c, 1, PageLines)
         [] prim = "HOME" -> LineStart(t, c)
         [] prim = "VCHOME" -> IF c = FirstNonBlank(t, c) THEN LineStart(t, c)
                               ELSE FirstNonBlank(t, c)
         [] prim = "LINEEND" -> LineEnd(t, c)
         [] prim = "WORDRIGHT" -> NextWordStart(t, c, 1)
         [] prim = "WORDLEFT" -> NextWordStart(t, c, -1)
         [] prim = "WORDRIGHTEND" -> NextWordEnd(t, c, 1)
         [] prim = "WORDLEFTEND" -> NextWordEnd(t, c, -1)
         [] prim = "DELETEBACK" -> IF s.readOnly THEN c ELSE Max(0, c - 1)
         [] prim = "LINEDELETE" -> IF s.readOnly THEN c ELSE LineStart(t, c)
         [] prim = "GOTOLINE" -> PosOfLine(t, arg)
         [] prim = "GOTOPOS" -> Max(0, Min(Len(t), arg))
         [] OTHER -> c

PrimText(s, prim) ==
    IF s.readOnly THEN s.text
    ELSE IF prim = "DELETEBACK" /\ s.cursor > 0
    THEN DeleteRange(s.text, s.cursor - 1, s.cursor)
    ELSE IF prim = "LINEDELETE"
    THEN DeleteRange(s.text, LineStart(s.text, s.cursor),
                     PosOfLine(s.text, LineOfPos(s.text, s.cursor) + 1))
    ELSE s.text

\* the undo history, followed for its most recent steps only
Keep(s, stack) == IF Len(stack) > s.undoKept THEN Tail(stack) ELSE stack

\* faulty variant: every change is a step of its own, grouped or not
ChangeEachRecorded(s, newtext) ==
    IF newtext = s.text THEN s
    ELSE [s EXCEPT !.text = newtext, !.undoStack = Keep(s, Append(@, s.text))]

\* a text change as the component records it: one undo step for a change
\* outside a group (beginUndoAction .. endUndoAction), one step per group
Change(s, newtext) ==
    IF newtext = s.text THEN s
    ELSE IF s.undoDepth > 0 /\ s.groupRecorded THEN [s EXCEPT !.text = newtext]
    ELSE [s EXCEPT !.text = newtext,
                   !.undoStack = Keep(s, Append(@, s.text)),
                   !.groupRecorded = s.undoDepth > 0]

\* the component handling one message: caret, text, and the count of issues
Scintilla(s, prim, arg) ==
    [Change(s, PrimText(s, prim)) EXCEPT
        !.cursor = PrimCursor(s, prim, arg),
        !.issued = [@ EXCEPT ![prim] = @ + 1]]

\* ------------------------------------------------------------ key events
\* A key event as the handler reads it: e.key(), e.text() and what
\* QApplication.keyboardModifiers() reports while it is handled.
Ev(k, t, m) == [key |-> k, text |-> t, mods |-> m]

KeyOf(l) == CASE l \in {"a", "A"} -> "Key_A" [] l \in {"b", "B"} -> "Key_B"
              [] l \in {"c", "C"} -> "Key_C" [] l \in {"d", "D"} -> "Key_D"
              [] l \in {"e", "E"} -> "Key_E" [] l \in {"f", "F"} -> "Key_F"
              [] l \in {"g", "G"} -> "Key_G" [] l \in {"i", "I"} -> "Key_I"
              [] l \in {"j", "J"} -> "Key_J" [] l \in {"k", "K"} -> "Key_K"
              [] l \in {"l", "L"} -> "Key_L" [] l \in {"o", "O"} -> "Key_O"
              [] l \in {"r", "R"} -> "Key_R" [] l \in {"s", "S"} -> "Key_S"
              [] l \in {"t", "T"} -> "Key_T" [] l \in {"w", "W"} -> "Key_W"
              [] l \in {"x", "X"} -> "Key_X" [] l \in {"z", "Z"} -> "Key_Z"
              [] l \in {"u", "U"} -> "Key_U" [] l \in {"v", "V"} -> "Key_V"
              [] l \in {"y", "Y"} -> "Key_Y"
              [] l = "$" -> "Key_Dollar" [] l = ";" -> "Key_Semicolon"
              [] l = "," -> "Key_Comma"
              [] l = ">" -> "Key_Greater" [] l = "<" -> "Key_Less"

\* text a key event carries when Alt is held: the letter on some platforms,
\* nothing on others
AltTexts(l) == {l, ""}

Events ==
    {Ev(KeyOf(l), l, "No") : l \in PlainLetters}
    \cup {Ev(KeyOf(l), l, "Shift") : l \in ShiftLetters}
    \cup {Ev(KeyOf("$"), "$", "Shift")}
    \cup {Ev(KeyOf(l), l, "No") : l \in {";", ","}}
    \cup {Ev(k, NUMSETKEYS[k], "No") : k \in DOMAIN NUMSETKEYS}
    \cup {Ev("Key_Escape", "ESC", "No"), Ev("Key_Space", " ", "No"),
          Ev("Key_Return", "CR", "No"), Ev("Key_Backspace", "BS", "No"),
          Ev("Key_F1", "", "No")}
    \cup UNION {{Ev(KeyOf(l), t, "Alt") : t \in AltTexts(l)} :
                   l \in {"i", "k", "j", "l", "e", "b"}}
    \cup {Ev(KeyOf(l), "CTL", "Control") : l \in {"i", "k", "c"}}
    \cup {Ev(KeyOf("k"), "K", "ControlShift")}
    \cup {Ev("Key_Shift", "", m) : m \in {"No", "Shift"}}
    \cup {Ev("Key_Alt", "", m) : m \in {"No", "Alt"}}
    \cup {Ev("Key_Control", "", m) : m \in {"No", "Control"}}

\* characters the underlying widget inserts for a key it is handed
Printable == PlainLetters \cup ShiftLetters
             \cup {"0", "1", "2", "3", " ", "$", ";", ","}

\* ---------------------------------------------------------------- state
VARIABLES
    mode,                   \* self.mode
    readOnly,               \* the component's read-only flag (setReadOnly)
    caretStyle,             \* SCI_SETCARETSTYLE
    prevWasEscapeFirst,     \* self.prevWasEscapeFirst
    numberList,             \* self.numberList
    replaceModeRepeat,      \* self.replaceModeRepeat
    lineFindChar,           \* self.lineFindChar
    lineFindCharDirection,  \* self.lineFindCharDirection
    selectionMode,          \* self.selectionMode
    text,                   \* the document
    cursor,                 \* the caret offset
    anchor,                 \* where the selection began, while one is active
    clipboard,              \* the clipboard's text
    undoStack,              \* the component's undo history: texts to go back to
    undoKept,               \* how many steps of that history are followed
    startLen,               \* length of the document the editor started with
    last,                   \* history: what the last operation was and did
    typed,                  \* history: the digit keys typed in a row in Movement
    chordBase               \* history: the text before a pending first chord key

vars == <<mode, readOnly, caretStyle, prevWasEscapeFirst, numberList,
          replaceModeRepeat, lineFindChar, lineFindCharDirection, selectionMode,
          text, cursor, anchor, clipboard, undoStack, undoKept, startLen, last,
          typed, chordBase>>

\* the widget's fields as one value, plus the locals of one keyPressEvent:
\* process, clearnumberList, and what the handler emitted and issued
Fields ==
    [mode |-> mode, readOnly |-> readOnly, caretStyle |-> caretStyle,
     prevWasEscapeFirst |-> prevWasEscapeFirst, numberList |-> numberList,
     replaceModeRepeat |-> replaceModeRepeat, lineFindChar |-> lineFindChar,
     lineFindCharDirection |-> lineFindCharDirection,
     selectionMode |-> selectionMode, text |-> text,
     cursor |-> cursor, anchor |-> anchor, clipboard |-> clipboard,
     undoStack |-> undoStack, undoKept |-> undoKept,
     process |-> FALSE, clearnumberList |-> TRUE, emitted |-> 0,
     curLine |-> LineOfPos(text, cursor),
     curIndex |-> cursor - LineStart(text, cursor), positionChanged |-> FALSE,
     issued |-> NoneIssued, undoDepth |-> 0, maxUndoDepth |-> 0,
     groupRecorded |-> FALSE, wroteReadOnly |-> FALSE,
     changedReadOnly |-> FALSE, branch |-> "none"]

\* ------------------------------------------------------- calls on self
\* Calls on self are resolved by one dispatcher (Call, defined after the
\* handler), as the handler sends messages to the component and the
\* component's base class is called back by the handler.
RECURSIVE Call(_, _, _)

\* self.SendScintilla(msg, arg) and self.SendScintilla(msg)
SendScintillaArg(s, prim, arg) == Call("SendScintilla", s, <<prim, arg>>)

SendScintilla(s, prim) == Call("SendScintilla", s, <<prim, 0>>)

\* ------------------------------------------------------------- setMode
\* faulty variant: setMode without the `if newmode == self.mode: return`
SetModeNoGuard(s, newmode) ==
    LET s1 == CASE newmode = "Typing" -> [s EXCEPT !.caretStyle = 1, !.readOnly = FALSE]
                [] newmode = "Movement" -> [s EXCEPT !.caretStyle = 2, !.readOnly = TRUE]
                [] newmode = "Command" -> [s EXCEPT !.readOnly = TRUE]
                [] newmode = "ReplaceChar" -> [s EXCEPT !.caretStyle = 1, !.readOnly = TRUE]
                [] newmode = "FindChar" -> [s EXCEPT !.readOnly = TRUE]
                [] OTHER -> s
    IN [s1 EXCEPT !.mode = newmode, !.emitted = @ + 1]

\* faulty variant: setMode that forgets `self.mode = newmode`
SetModeNoAssign(s, newmode) ==
    IF newmode = s.mode THEN s
    ELSE [s EXCEPT !.emitted = @ + 1]

\* setMode: nothing when the mode is already newmode; otherwise the mode's
\* caret style and read-only flag, the assignment and one notification
SetMode(s, newmode) ==
    IF newmode = s.mode THEN s
    ELSE LET s1 == CASE newmode = "Typing" ->
                         [s EXCEPT !.caretStyle = 1, !.readOnly = FALSE]
                     [] newmode = "Movement" ->
                         [s EXCEPT !.caretStyle = 2, !.readOnly = TRUE]
                     [] newmode = "Command" -> [s EXCEPT !.readOnly = TRUE]
                     [] newmode = "ReplaceChar" ->
                         [s EXCEPT !.caretStyle = 1, !.readOnly = TRUE]
                     [] newmode = "FindChar" -> [s EXCEPT !.readOnly = TRUE]
                     [] OTHER -> s
         IN [s1 EXCEPT !.mode = newmode, !.emitted = @ + 1]

\* ------------------------------------------------------- number prefix
\* faulty variant: a 0 is dropped whatever the list holds
ProcessNumberPrefixZeroNeverStored(list, key) ==
    LET strnumkey == NUMSETKEYS[key]
    IN IF strnumkey = "0" THEN <<>> ELSE Append(list, strnumkey)

\* processNumberPrefix: the list afterwards, and its return value
ProcessNumberPrefixList(list, key) ==
    LET strnumkey == NUMSETKEYS[key]
    IN IF strnumkey = "0" /\ Len(list) = 0 THEN <<>> ELSE Append(list, strnumkey)

ProcessNumberPrefixClear(list, key) == NUMSETKEYS[key] = "0" /\ Len(list) = 0

\* faulty variant: a prefix is never reported
HasNumberPrefixNever(s) == FALSE

\* faulty variant: a prefix is always reported
HasNumberPrefixAlways(s) == TRUE

HasNumberPrefix(s) == Len(s.numberList) # 0

\* faulty variant: only the first digit of the prefix counts
GetNumberPrefixFirstDigit(s, limitByMaxLines) ==
    LET number == IF s.numberList = <<>> THEN 1 ELSE DigitValue(s.numberList[1])
    IN IF limitByMaxLines THEN Min(number, Lines(s.text)) ELSE number

\* getNumberPrefix: the count typed, 1 when none was
\* faulty variant: the count is never limited by the number of lines
GetNumberPrefixUnclamped(s, limitByMaxLines) ==
    IF s.numberList = <<>> THEN 1 ELSE IntOfDigits(s.numberList)

GetNumberPrefix(s, limitByMaxLines) ==
    LET number == IF s.numberList = <<>> THEN 1 ELSE IntOfDigits(s.numberList)
    IN IF limitByMaxLines THEN Min(number, Lines(s.text)) ELSE number

\* ------------------------------------------------------ context managers
BeginUndo(s) == [s EXCEPT !.undoDepth = @ + 1,
                          !.maxUndoDepth = Max(@, s.undoDepth + 1),
                          !.groupRecorded = IF s.undoDepth = 0 THEN FALSE ELSE @]
\* faulty variant: the group is never closed
EndUndoForgotten(s) == s

EndUndo(s) == [s EXCEPT !.undoDepth = @ - 1]
\* ReadWrite.__enter__ / __exit__
ReadWriteEnter(s) == [s EXCEPT !.readOnly = FALSE]
ReadWriteExit(s) == [s EXCEPT !.readOnly = TRUE]
\* ReadWriteSingleUndo.__enter__ / __exit__
ReadWriteSingleUndoEnter(s) == [BeginUndo(s) EXCEPT !.readOnly = FALSE]
ReadWriteSingleUndoExit(s) == [EndUndo(s) EXCEPT !.readOnly = TRUE]

\* ------------------------------------------- QsciScintilla buffer calls
\* insertAt(text, line, index): QsciScintilla makes the component writable
\* for the insertion and restores the flag; the caret stays where it is
\* unless it was after the insertion point
InsertAt(s, str, line, index) ==
    LET pos == PositionFromLineIndex(s.text, line, index)
    IN [Change(s, InsertText(s.text, pos, str)) EXCEPT
           !.cursor = IF s.cursor > pos THEN s.cursor + Len(str) ELSE s.cursor,
           !.changedReadOnly = @ \/ s.readOnly]

SetCursorPosition(s, line, index) ==
    [s EXCEPT !.cursor = PositionFromLineIndex(s.text, line, index)]

\* text changes through the component itself are refused while read-only
Mutate(s, newtext, newcursor) ==
    IF s.readOnly THEN [s EXCEPT !.wroteReadOnly = TRUE]
    ELSE [Change(s, newtext) EXCEPT !.cursor = newcursor]

\* length of the longest common prefix of two texts
CommonPrefix(t, u) ==
    CHOOSE n \in 0..Min(Len(t), Len(u)) :
        /\ \A q \in 1..n : t[q] = u[q]
        /\ n = Min(Len(t), Len(u)) \/ t[n + 1] # u[n + 1]

\* undo(): back to the text before the last recorded step, the caret where
\* the texts begin to differ; nothing without a step or while read-only
Undo(s) ==
    IF s.readOnly \/ s.undoStack = <<>> THEN s
    ELSE LET back == s.undoStack[Len(s.undoStack)]
         IN [s EXCEPT !.text = back,
                      !.undoStack = SubSeq(@, 1, Len(@) - 1),
                      !.cursor = CommonPrefix(back, s.text)]

\* QsciScintilla.indentation(line): columns of leading whitespace
LeadingWhitespace(t, line) ==
    LET body == TextOfLine(t, line)
    IN CHOOSE n \in 0..Len(body) :
          /\ \A q \in 1..n : body[q] \in {" ", TAB}
          /\ n = Len(body) \/ body[n + 1] \notin {" ", TAB}

RECURSIVE Columns(_, _)
Columns(str, col) ==
    IF str = <<>> THEN col
    ELSE Columns(Tail(str), IF str[1] = TAB THEN (col \div TabWidth + 1) * TabWidth
                            ELSE col + 1)

Indentation(t, line) ==
    Columns(SubSeq(TextOfLine(t, line), 1, LeadingWhitespace(t, line)), 0)

\* the whitespace the component writes for an indentation: tabs, then spaces
IndentString(indent) ==
    [q \in 1..((indent \div TabWidth) + (indent % TabWidth)) |->
        IF q <= indent \div TabWidth THEN TAB ELSE " "]

\* QsciScintilla.setIndentation(line, indent): the leading whitespace of the
\* line is replaced; the caret moves with the text around it
SetIndentation(s, line, indent) ==
    IF indent = Indentation(s.text, line) THEN s
    ELSE IF s.readOnly THEN [s EXCEPT !.wroteReadOnly = TRUE]
    ELSE LET from == PosOfLine(s.text, line)
             old == LeadingWhitespace(s.text, line)
             new == IndentString(indent)
             c1 == IF s.cursor >= from + old THEN s.cursor - old
                   ELSE IF s.cursor > from THEN from ELSE s.cursor
         IN [Change(s, InsertText(DeleteRange(s.text, from, from + old), from, new))
                EXCEPT !.cursor = IF c1 > from THEN c1 + Len(new) ELSE c1]

\* QsciScintilla.indent(line) and unindent(line)
Indent(s, line) == SetIndentation(s, line, Indentation(s.text, line) + TabWidth)

Unindent(s, line) ==
    SetIndentation(s, line, Max(0, Indentation(s.text, line) - TabWidth))

\* the selected text: from the anchor to the caret, whole lines in Line mode
SelectionStart(s) ==
    LET lo == Min(Min(s.anchor, s.cursor), Len(s.text))
    IN IF s.selectionMode = "Line" THEN LineStart(s.text, lo) ELSE lo

SelectionEnd(s) ==
    LET hi == Min(Max(s.anchor, s.cursor), Len(s.text))
    IN IF s.selectionMode = "Line"
       THEN PosOfLine(s.text, LineOfPos(s.text, hi) + 1) ELSE hi

SelectedText(s) ==
    IF s.selectionMode = "Disabled" THEN <<>>
    ELSE SubSeq(s.text, SelectionStart(s) + 1, SelectionEnd(s))

\* copy(): the selected text to the clipboard, nothing when it is empty
Copy(s) ==
    IF SelectedText(s) = <<>> THEN s ELSE [s EXCEPT !.clipboard = SelectedText(s)]

\* setSelection(line, index, line, index + num) followed by cut(): the range
\* goes to the clipboard and out of the text, the caret to its start
CutRange(s, line, index, num) ==
    LET from == PositionFromLineIndex(s.text, line, index)
        to == PositionFromLineIndex(s.text, line, index + num)
    IN IF from = to THEN [s EXCEPT !.cursor = from]
       ELSE IF s.readOnly THEN [s EXCEPT !.cursor = to, !.wroteReadOnly = TRUE]
       ELSE [Change(s, DeleteRange(s.text, from, to)) EXCEPT
                !.clipboard = SubSeq(s.text, from + 1, to),
                !.cursor = from]

\* ----------------------------------------------------- SciTextOps (textOps)
IsWS(c) == c = " " \/ c = NL

\* least q >= p at the document end or where whitespace-ness differs from ws
ScanFwd(t, p, ws) ==
    CHOOSE q \in p..Len(t) :
        (q = Len(t) \/ IsWS(t[q + 1]) # ws) /\ \A r \in (p + 1)..q : IsWS(t[r]) = ws

\* greatest q <= p at the document start or where whitespace-ness differs
ScanBack(t, p, ws) ==
    CHOOSE q \in 0..p :
        (q = 0 \/ IsWS(t[q]) # ws) /\ \A r \in (q + 1)..p : IsWS(t[r]) = ws

\* textOps.findWORDPosition(direction): start of the next WORD to the right,
\* or last character of the previous WORD to the left; -1 when there is none
FindWORDPosition(s, direction) ==
    IF direction = "Right"
    THEN LET p2 == ScanFwd(s.text, ScanFwd(s.text, s.cursor, FALSE), TRUE)
         IN IF p2 >= Len(s.text) THEN -1 ELSE p2
    ELSE LET p2 == ScanBack(s.text, ScanBack(s.text, s.cursor, FALSE), TRUE)
         IN IF p2 = 0 THEN -1 ELSE p2 - 1

\* textOps.findWordEnd(WORD=True): last character of the WORD at the caret
FindWordEnd(s) == Max(s.cursor, ScanFwd(s.text, s.cursor, FALSE) - 1)

\* textOps.findWordStart(WORD=True): first character of the WORD at the caret
FindWordStart(s) == ScanBack(s.text, Min(Len(s.text), s.cursor + 1), FALSE)

\* textOps.insertLine(direction): a bare newline at column 0 of the line
\* current + 1 (below) or current - 1 (above), the caret at column 0 of it
InsertLine(s, direction) ==
    LET line == CursorLine(s)
        target == IF direction = "Below" THEN line + 1 ELSE line - 1
        \* a negative line stands for the line of the caret
        tline == IF target < 0 THEN line ELSE target
    IN SetCursorPosition(InsertAt(s, <<NL>>, tline, 0), tline, 0)

\* textOps.deleteLines(Direction.Below): the prefix's number of lines, from
\* the caret's line on
DeleteLines(s) ==
    LET n == GetNumberPrefix(s, TRUE)
        line == CursorLine(s)
        from == PosOfLine(s.text, line)
        to == PosOfLine(s.text, line + n)
    IN Mutate(s, DeleteRange(s.text, from, to), from)

\* textOps.deleteToEOL(): from the caret to the end of its line
DeleteToEOL(s) ==
    Mutate(s, DeleteRange(s.text, s.cursor, LineEnd(s.text, s.cursor)), s.cursor)

\* textOps.jumpToCharInLineFromPos(char, direction): the first occurrence in
\* the caret's line, in that direction; the caret stays when there is none
JumpToCharInLineFromPos(s, char, direction) ==
    LET t == s.text
        hits == IF direction = "Right"
                THEN {q \in (s.cursor + 1)..(LineEnd(t, s.cursor) - 1) : t[q + 1] = char}
                ELSE {q \in LineStart(t, s.cursor)..(s.cursor - 1) : t[q + 1] = char}
    IN IF hits = {} THEN s
       ELSE IF direction = "Right"
            THEN [s EXCEPT !.cursor = CHOOSE q \in hits : \A r \in hits : q <= r]
            ELSE [s EXCEPT !.cursor = CHOOSE q \in hits : \A r \in hits : q >= r]

\* textOps.disableSelection(): no selection mode, no selected range
DisableSelection(s) == [s EXCEPT !.selectionMode = "Disabled", !.anchor = 0]

\* textOps.toggleSelection(mode): off when the mode is on already, otherwise
\* on, the range beginning at the caret unless a selection is under way
ToggleSelection(s, selmode) ==
    IF s.selectionMode = selmode THEN DisableSelection(s)
    ELSE [s EXCEPT !.selectionMode = selmode,
                   !.anchor = IF s.selectionMode = "Disabled" THEN s.cursor ELSE @]

\* textOps.yankLines(Direction.Below): the prefix's number of lines, from the
\* caret's line on, to the clipboard
YankLines(s) ==
    LET n == GetNumberPrefix(s, TRUE)
        line == CursorLine(s)
    IN [s EXCEPT !.clipboard = SubSeq(s.text, PosOfLine(s.text, line) + 1,
                                      PosOfLine(s.text, line + n))]

\* textOps.yankToEOL(fromLineStart = True): the caret's line to the clipboard
YankToEOL(s) ==
    [s EXCEPT !.clipboard = SubSeq(s.text, LineStart(s.text, s.cursor) + 1,
                                   LineEnd(s.text, s.cursor))]

\* ---------------------------------------------- repeated command bodies
\* one pass of the J loop
JoinOne(s) ==
    LET line == CursorLine(s)
        stripped == LStrip(TextOfLine(s.text, line + 1))
        nextLine == IF stripped = <<>> THEN <<NL>> ELSE stripped
        s1 == InsertAt(s, <<" ">> \o nextLine, line, LineLength(s.text, line) - 1)
        s2 == SendScintilla(s1, "LINEDOWN")
        s3 == SendScintilla(s2, "LINEDELETE")
        s4 == SendScintilla(s3, "LINEDELETE")
    IN SendScintilla(s4, "LINEUP")

\* the direction `,` searches in
RevDirectionSame(direction) == direction

RevDirection(direction) == IF direction = "Left" THEN "Right" ELSE "Left"

CallFindWORD(s) == [s EXCEPT !.issued = [@ EXCEPT !["findWORDPosition"] = @ + 1]]

\* one pass of the ReplaceChar loop
ReplaceOne(s, ch) ==
    LET line == CursorLine(s)
        index == CursorIndex(s)
        selEnd == PositionFromLineIndex(s.text, line, index + 1)
        s1 == Mutate(s, DeleteRange(s.text, s.cursor, selEnd), s.cursor)
        s2 == InsertAt(s1, <<ch>>, line, index)
    IN IF s.replaceModeRepeat > 1 THEN SetCursorPosition(s2, line, index + 1) ELSE s2

\* the body of each `for _ in range(...)` loop of keyPressEvent
Body(cmd, s, arg) ==
    CASE cmd \in Prims -> SendScintilla(s, cmd)
      [] cmd = "e" -> SendScintilla(SendScintilla(SendScintilla(s, "CHARRIGHT"),
                                                  "WORDRIGHTEND"), "CHARLEFT")
      [] cmd = "AltE" -> SendScintilla(SendScintilla(s, "WORDLEFTEND"), "CHARLEFT")
      [] cmd = "W" ->
            LET nextWordPos == FindWORDPosition(s, "Right")
            IN IF nextWordPos # -1
               THEN SendScintillaArg(CallFindWORD(s), "GOTOPOS", nextWordPos)
               ELSE CallFindWORD(s)
      [] cmd = "E" ->
            LET nextWordEndPos == FindWORDPosition(s, "Right")
            IN IF nextWordEndPos # -1
               THEN LET s1 == SendScintillaArg(CallFindWORD(s), "GOTOPOS", nextWordEndPos)
                    IN SendScintillaArg(s1, "GOTOPOS", FindWordEnd(s1))
               ELSE CallFindWORD(s)
      [] cmd = "B" ->
            LET prevWordEndPos == FindWORDPosition(s, "Left")
            IN IF prevWordEndPos # -1
               THEN LET s1 == SendScintillaArg(CallFindWORD(s), "GOTOPOS", prevWordEndPos)
                    IN SendScintillaArg(s1, "GOTOPOS", FindWordStart(s1))
               ELSE CallFindWORD(s)
      [] cmd = "AltB" ->
            SendScintillaArg(CallFindWORD(s), "GOTOPOS", FindWORDPosition(s, "Left"))
      [] cmd = "o" -> InsertLine(s, "Below")
      [] cmd = "O" -> InsertLine(s, "Above")
      [] cmd = "replace" -> ReplaceOne(s, arg)
      [] cmd = "J" -> JoinOne(s)
      [] cmd = "undo" -> Undo(s)
      [] cmd = "indent" -> [Indent(s, s.curLine) EXCEPT !.curLine = @ + 1]
      [] cmd = "unindent" -> [Unindent(s, s.curLine) EXCEPT !.curLine = @ + 1]

\* for _ in range(n): each pass runs on the state the previous one left
Iter(cmd, n, s, arg) == Call("for", s, <<cmd, n, arg>>)

Took(s, name) == [s EXCEPT !.branch = name]

\* ------------------------------------------------------- keyPressEvent
FnKeys == {"Key_F1", "Key_F2", "Key_F3"}

\* processFnKeyEvent: save / load / quit, which touch none of the fields
ProcessFnKeyEvent(s, e) == s

\* faulty variant: the chord switches mode without deleting the first key
EscapeChordNoDelete(s) == SetMode(s, "Movement")

\* the chord completes: one DELETEBACK, then setMode(Movement)
EscapeChord(s) == SetMode(SendScintilla(s, "DELETEBACK"), "Movement")

\* Typing mode
TypingKey(s, e) ==
    IF e.mods \in {"No", "Shift"}
    THEN IF e.key = "Key_Escape" THEN Took(SetMode(s, "Movement"), "typing.escape")
         ELSE IF e.text = ESCAPEFIRST
         THEN Took([s EXCEPT !.prevWasEscapeFirst = TRUE, !.process = TRUE], "typing.first")
         ELSE IF e.text = ESCAPESECOND
         THEN LET s1 == IF s.prevWasEscapeFirst
                        THEN Took(EscapeChord(s), "typing.chord")
                        ELSE Took([s EXCEPT !.process = TRUE], "typing.second")
              IN [s1 EXCEPT !.prevWasEscapeFirst = FALSE]
         ELSE IF e.key \in FnKeys THEN Took(ProcessFnKeyEvent(s, e), "typing.fn")
         ELSE Took([s EXCEPT !.process = TRUE], "typing.write")
    ELSE IF e.mods = "Control"
    THEN IF e.key = "Key_I" THEN Took(SendScintilla(s, "PAGEUP"), "typing.ctrl")
         ELSE IF e.key = "Key_K" THEN Took(SendScintilla(s, "PAGEDOWN"), "typing.ctrl")
         ELSE Took(s, "typing.ctrl.none")
    ELSE IF e.mods = "Alt"
    THEN IF e.key = "Key_I" THEN Took(SendScintilla(s, "LINEUP"), "typing.alt")
         ELSE IF e.key = "Key_K" THEN Took(SendScintilla(s, "LINEDOWN"), "typing.alt")
         ELSE IF e.key = "Key_J" THEN Took(SendScintilla(s, "CHARLEFT"), "typing.alt")
         ELSE IF e.key = "Key_L" THEN Took(SendScintilla(s, "CHARRIGHT"), "typing.alt")
         ELSE Took([s EXCEPT !.process = TRUE], "typing.alt.write")
    ELSE Took([s EXCEPT !.process = TRUE], "typing.other")

\* Movement mode, no modifier or Shift
MovementPlainKey(s, e) ==
    IF e.key \in DOMAIN NUMSETKEYS
    THEN LET clear == ProcessNumberPrefixClear(s.numberList, e.key)
             s1 == [s EXCEPT !.numberList = ProcessNumberPrefixList(s.numberList, e.key),
                             !.clearnumberList = clear]
         IN IF e.text = "0" /\ clear THEN Took(SendScintilla(s1, "HOME"), "move.zero")
            ELSE Took(s1, "move.digit")
    ELSE IF e.text = "t" THEN Took(SetMode(s, "Typing"), "move.t")
    ELSE IF e.text = "a"
    THEN Took(SetMode(SendScintilla(s, "CHARRIGHT"), "Typing"), "move.a")
    ELSE IF e.key = "Key_Space" THEN Took(SetMode(s, "Command"), "move.space")
    ELSE IF e.text = "i"
    THEN Took(Iter("LINEUP", GetNumberPrefix(s, TRUE), s, ""), "move.i")
    ELSE IF e.key = "Key_Backspace"
    THEN Took(Iter("LINEUP", BACKSPACE_LINES * GetNumberPrefix(s, TRUE), s, ""), "move.bs")
    ELSE IF e.text = "k"
    THEN Took(Iter("LINEDOWN", GetNumberPrefix(s, TRUE), s, ""), "move.k")
    ELSE IF e.key = "Key_Return"
    THEN Took(Iter("LINEDOWN", RETURN_LINES * GetNumberPrefix(s, TRUE), s, ""), "move.ret")
    ELSE IF e.text = "j"
    THEN Took(Iter("CHARLEFT", GetNumberPrefix(s, FALSE), s, ""), "move.j")
    ELSE IF e.text = "l"
    THEN Took(Iter("CHARRIGHT", GetNumberPrefix(s, FALSE), s, ""), "move.l")
    ELSE IF e.text = "w"
    THEN Took(Iter("WORDRIGHT", GetNumberPrefix(s, FALSE), s, ""), "move.w")
    ELSE IF e.text = "b"
    THEN Took(Iter("WORDLEFT", GetNumberPrefix(s, FALSE), s, ""), "move.b")
    ELSE IF e.text = "e"
    THEN Took(Iter("e", GetNumberPrefix(s, FALSE), s, ""), "move.e")
    ELSE IF e.text = "s" THEN Took(SendScintilla(s, "VCHOME"), "move.s")
    ELSE IF e.text = "o"
    THEN Took(EndUndo(SetMode(Iter("o", GetNumberPrefix(s, FALSE), BeginUndo(s), ""),
                              "Typing")), "move.o")
    ELSE IF e.text = "O"
    THEN Took(EndUndo(SetMode(Iter("O", GetNumberPrefix(s, FALSE), BeginUndo(s), ""),
                              "Typing")), "move.O")
    ELSE IF e.text = "g"
    THEN IF ~HasNumberPrefix(s) THEN Took(s, "move.g.none")
         ELSE Took(SendScintillaArg(s, "GOTOLINE", GetNumberPrefix(s, TRUE) - 1), "move.g")
    ELSE IF e.text = "r"
    THEN Took(SetMode([s EXCEPT !.replaceModeRepeat = GetNumberPrefix(s, FALSE)],
                      "ReplaceChar"), "move.r")
    ELSE IF e.text = "$"
    THEN Took(SendScintilla(SendScintilla(s, "LINEEND"), "CHARLEFT"), "move.dollar")
    ELSE IF e.text = "A"
    THEN Took(SetMode(SendScintilla(s, "LINEEND"), "Typing"), "move.A")
    ELSE IF e.text = "I"
    THEN Took(SetMode(SendScintilla(s, "VCHOME"), "Typing"), "move.I")
    ELSE IF e.text = "W" THEN Took(Iter("W", GetNumberPrefix(s, FALSE), s, ""), "move.W")
    ELSE IF e.text = "E" THEN Took(Iter("E", GetNumberPrefix(s, FALSE), s, ""), "move.E")
    ELSE IF e.text = "B" THEN Took(Iter("B", GetNumberPrefix(s, FALSE), s, ""), "move.B")
    ELSE IF e.text = "X"
    THEN Took(ReadWriteSingleUndoExit(
                Iter("DELETEBACK", GetNumberPrefix(s, FALSE),
                     ReadWriteSingleUndoEnter(s), "")), "move.X")
    ELSE IF e.text = "f"
    THEN Took(SetMode([s EXCEPT !.lineFindCharDirection = "Right"], "FindChar"), "move.f")
    ELSE IF e.text = "F"
    THEN Took(SetMode([s EXCEPT !.lineFindCharDirection = "Left"], "FindChar"), "move.F")
    ELSE IF e.text = "d"
    THEN IF ~HasNumberPrefix(s) THEN Took(s, "move.d.none")
         ELSE Took(ReadWriteExit(DeleteLines(ReadWriteEnter(s))), "move.d")
    ELSE IF e.text = "D"
    THEN Took(ReadWriteExit(DeleteToEOL(ReadWriteEnter(s))), "move.D")
    ELSE IF e.text = "c"
    THEN IF ~HasNumberPrefix(s) THEN Took(s, "move.c.none")
         ELSE Took(ReadWriteExit(SetMode(DeleteLines(ReadWriteEnter(s)), "Typing")),
                   "move.c")
    ELSE IF e.text = "C"
    THEN Took(ReadWriteExit(SetMode(DeleteToEOL(ReadWriteEnter(s)), "Typing")), "move.C")
    ELSE IF e.text = "u"
    THEN Took(ReadWriteExit(Iter("undo", GetNumberPrefix(s, FALSE),
                                 ReadWriteEnter(s), "")), "move.u")
    ELSE IF e.text = "J"
    THEN Took(ReadWriteSingleUndoExit(
                Iter("J", GetNumberPrefix(s, TRUE), ReadWriteSingleUndoEnter(s), "")),
              "move.J")
    ELSE IF e.text = "x"
    THEN Took(ReadWriteSingleUndoExit(
                CutRange(ReadWriteSingleUndoEnter(s), CursorLine(s), CursorIndex(s),
                         GetNumberPrefix(s, FALSE))), "move.x")
    ELSE IF e.text = ">"
    THEN Took(ReadWriteSingleUndoExit(
                Iter("indent", GetNumberPrefix(s, FALSE), ReadWriteSingleUndoEnter(s), "")),
              "move.indent")
    ELSE IF e.text = "<"
    THEN Took(ReadWriteSingleUndoExit(
                Iter("unindent", GetNumberPrefix(s, FALSE), ReadWriteSingleUndoEnter(s),
                     "")),
              "move.unindent")
    ELSE IF e.text = ";"
    THEN Took(JumpToCharInLineFromPos(s, s.lineFindChar, s.lineFindCharDirection),
              "move.semicolon")
    ELSE IF e.text = ","
    THEN Took(JumpToCharInLineFromPos(s, s.lineFindChar,
                                      RevDirection(s.lineFindCharDirection)),
              "move.comma")
    ELSE IF e.text \in {"y", "Y"}
    THEN IF s.selectionMode # "Disabled"
         THEN Took(DisableSelection(Copy(s)), "move.y.selection")
         ELSE IF e.text = "y"
         THEN IF HasNumberPrefix(s) THEN Took(YankLines(s), "move.y")
              ELSE Took(s, "move.y.none")
         ELSE Took(YankLines(s), "move.Y")
    ELSE IF e.text = "v" THEN Took(ToggleSelection(s, "Character"), "move.v")
    ELSE IF e.text = "V" THEN Took(ToggleSelection(s, "Line"), "move.V")
    ELSE IF e.key \in FnKeys THEN Took(ProcessFnKeyEvent(s, e), "move.fn")
    ELSE Took([s EXCEPT !.clearnumberList = FALSE], "move.else")

\* Movement mode
MovementKey(s, e) ==
    IF e.mods \in {"No", "Shift"} THEN MovementPlainKey(s, e)
    ELSE IF e.mods = "Alt"
    THEN IF e.key = "Key_E"
         THEN Took(Iter("AltE", GetNumberPrefix(s, FALSE), s, ""), "move.alt.e")
         ELSE IF e.key = "Key_B"
         THEN Took(Iter("AltB", GetNumberPrefix(s, FALSE), s, ""), "move.alt.b")
         ELSE Took(s, "move.alt.none")
    ELSE IF e.mods = "Control"
    THEN IF e.key = "Key_I"
         THEN Took(Iter("PAGEUP", GetNumberPrefix(s, TRUE), s, ""), "move.ctrl.i")
         ELSE IF e.key = "Key_K"
         THEN Took(Iter("PAGEDOWN", GetNumberPrefix(s, TRUE), s, ""), "move.ctrl.k")
         ELSE IF e.key = "Key_C"
         THEN IF s.selectionMode # "Disabled"
              THEN Took(DisableSelection(Copy(s)), "move.ctrl.c.selection")
              ELSE Took(YankToEOL(s), "move.ctrl.c")
         ELSE Took(s, "move.ctrl.none")
    ELSE Took(s, "move.none")

\* processCommand: not implemented
ProcessCommand(s) == s

\* Command mode
\* faulty variant: a key Command mode has no use for is left to the component
CommandKeyForwarded(s, e) ==
    IF e.key = "Key_Escape" THEN Took(SetMode(s, "Movement"), "command.escape")
    ELSE IF e.key = "Key_Return"
    THEN Took(SetMode(ProcessCommand(s), "Movement"), "command.return")
    ELSE Took([s EXCEPT !.process = TRUE], "command.none")

CommandKey(s, e) ==
    IF e.key = "Key_Escape" THEN Took(SetMode(s, "Movement"), "command.escape")
    ELSE IF e.key = "Key_Return"
    THEN Took(SetMode(ProcessCommand(s), "Movement"), "command.return")
    ELSE Took(s, "command.none")

\* ReplaceChar mode
\* faulty variant: Escape is taken as the character to write
ReplaceCharKeyEscapeTyped(s, e) ==
    IF e.text = "" THEN Took(s, "replace.none")
    ELSE LET s1 == ReadWriteSingleUndoExit(
                     Iter("replace", s.replaceModeRepeat,
                          ReadWriteSingleUndoEnter(s), e.text))
         IN Took(SetMode([s1 EXCEPT !.replaceModeRepeat = 1], "Movement"), "replace.char")

\* faulty variant: the repeat is not reset after the replacement
ReplaceCharKeyRepeatKept(s, e) ==
    IF e.key = "Key_Escape" THEN Took(SetMode(s, "Movement"), "replace.escape")
    ELSE IF e.text = "" THEN Took(s, "replace.none")
    ELSE LET s1 == ReadWriteSingleUndoExit(
                     Iter("replace", s.replaceModeRepeat,
                          ReadWriteSingleUndoEnter(s), e.text))
         IN Took(SetMode(s1, "Movement"), "replace.char")

ReplaceCharKey(s, e) ==
    IF e.key = "Key_Escape" THEN Took(SetMode(s, "Movement"), "replace.escape")
    ELSE IF e.text = "" THEN Took(s, "replace.none")
    ELSE LET s1 == ReadWriteSingleUndoExit(
                     Iter("replace", s.replaceModeRepeat,
                          ReadWriteSingleUndoEnter(s), e.text))
         IN Took(SetMode([s1 EXCEPT !.replaceModeRepeat = 1], "Movement"), "replace.char")

\* FindChar mode
\* faulty variant: after the find the editor goes on to Typing mode
FindCharKeyThenTyping(s, e) ==
    IF e.key = "Key_Escape" THEN Took(SetMode(s, "Movement"), "find.escape")
    ELSE IF e.text = "" THEN Took(s, "find.none")
    ELSE LET s1 == [s EXCEPT !.lineFindChar = e.text]
         IN Took(SetMode(JumpToCharInLineFromPos(s1, s1.lineFindChar,
                                                 s1.lineFindCharDirection),
                         "Typing"), "find.char")

FindCharKey(s, e) ==
    IF e.key = "Key_Escape" THEN Took(SetMode(s, "Movement"), "find.escape")
    ELSE IF e.text = "" THEN Took(s, "find.none")
    ELSE LET s1 == [s EXCEPT !.lineFindChar = e.text]
         IN Took(SetMode(JumpToCharInLineFromPos(s1, s1.lineFindChar,
                                                 s1.lineFindCharDirection),
                         "Movement"), "find.char")

\* super().keyPressEvent(e): the component's own handling of a key
BaseKeyPress(s, e) ==
    IF e.key = "Key_Backspace" THEN SendScintilla(s, "DELETEBACK")
    ELSE IF e.text \in Printable
    THEN Mutate(s, InsertText(s.text, s.cursor, <<e.text>>), s.cursor + 1)
    ELSE s

\* the tail of keyPressEvent: chord flag, number list, forwarding
ClearEscapeFirstNever(s, e) == s

ClearEscapeFirst(s, e) ==
    IF s.prevWasEscapeFirst /\ e.text # ESCAPEFIRST
    THEN [s EXCEPT !.prevWasEscapeFirst = FALSE] ELSE s

ClearNumberListInMovementOnly(s) ==
    IF s.clearnumberList /\ s.mode = "Movement"
    THEN [s EXCEPT !.numberList = <<>>] ELSE s

ClearNumberList(s) ==
    IF s.clearnumberList THEN [s EXCEPT !.numberList = <<>>] ELSE s

Forward(s, e) == IF s.process THEN BaseKeyPress(s, e) ELSE s

\* the last lines of the handler: positionChanged is emitted when the cursor
\* is not where curLine, curIndex say
EmitPositionChanged(s) ==
    [s EXCEPT !.positionChanged =
        CursorLine(s) # s.curLine \/ CursorIndex(s) # s.curIndex]

KeyPressEventResult(s, e) ==
    LET s1 == CASE s.mode = "Typing" -> TypingKey(s, e)
                [] s.mode = "Movement" -> MovementKey(s, e)
                [] s.mode = "Command" -> CommandKey(s, e)
                [] s.mode = "ReplaceChar" -> ReplaceCharKey(s, e)
                [] s.mode = "FindChar" -> FindCharKey(s, e)
                [] OTHER -> s
    IN EmitPositionChanged(Forward(ClearNumberList(ClearEscapeFirst(s1, e)), e))

\* the dispatcher: a message to the component, one loop of the handler
\* (each pass runs on the state the previous one left), or the handler
Call(method, s, args) ==
    CASE method = "SendScintilla" -> Scintilla(s, args[1], args[2])
      [] method = "for" ->
            IF args[2] <= 0 THEN s
            ELSE LET s1 == Body(args[1], s, args[3])
                 IN IF s1.cursor >= 0
                    THEN Call("for", s1, <<args[1], args[2] - 1, args[3]>>)
                    ELSE s1
      [] method = "keyPressEvent" -> KeyPressEventResult(s, args[1])

\* ------------------------------------------------------------ the machine
\* the document loaded into the editor before the first key
InitText == <<"a", NL>>

\* NemeTextWidget.__init__: a fresh component is writable with a line caret;
\* setMode(Movement) runs on it, then the remaining fields are set
Constructed(doc) ==
    SetMode([mode |-> None, readOnly |-> FALSE, caretStyle |-> 1,
             prevWasEscapeFirst |-> FALSE, numberList |-> <<>>,
             replaceModeRepeat |-> 1, lineFindChar |-> "",
             lineFindCharDirection |-> "Right", selectionMode |-> "Disabled",
             text |-> doc, cursor |-> 0, anchor |-> 0, clipboard |-> <<>>,
             undoStack |-> <<>>, undoKept |-> 0,
             process |-> FALSE, clearnumberList |-> TRUE, emitted |-> 0,
             curLine |-> 0, curIndex |-> 0, positionChanged |-> FALSE,
             issued |-> NoneIssued, undoDepth |-> 0, maxUndoDepth |-> 0,
             groupRecorded |-> FALSE, wroteReadOnly |-> FALSE,
             changedReadOnly |-> FALSE, branch |-> "init"],
            "Movement")

\* what the history keeps of an operation
Did(op, e, s) ==
    [op |-> op, key |-> e.key, text |-> e.text, mods |-> e.mods,
     emitted |-> s.emitted, issued |-> s.issued, branch |-> s.branch,
     undoDepth |-> s.undoDepth, maxUndoDepth |-> s.maxUndoDepth,
     wroteReadOnly |-> s.wroteReadOnly, changedReadOnly |-> s.changedReadOnly,
     process |-> s.process, positionChanged |-> s.positionChanged,
     \* the text a join started from, kept over the undo that follows it
     before |-> IF s.branch = "move.J" THEN text
                ELSE IF s.branch = "move.u" /\ last.branch = "move.J" THEN last.before
                ELSE <<>>,
     follows |-> IF op = "key" /\ last.branch = "typing.first" THEN "typing.first"
                 ELSE IF op = "setMode" /\ last.op = "setMode" /\ last.key = e.key
                 THEN "setMode.same" ELSE ""]

\* the digit keys typed in a row, as the user sees them
TypedAfter(m, e) ==
    IF m = "Movement" /\ e.mods \in {"No", "Shift"} /\ e.key \in DOMAIN NUMSETKEYS
    THEN Append(typed, NUMSETKEYS[e.key]) ELSE <<>>

\* the text as it was before the first chord key, while the chord is pending
ChordBaseAfter(s) == IF s.branch = "typing.first" THEN text ELSE <<>>

Store(s) ==
    /\ mode' = s.mode
    /\ readOnly' = s.readOnly
    /\ caretStyle' = s.caretStyle
    /\ prevWasEscapeFirst' = s.prevWasEscapeFirst
    /\ numberList' = s.numberList
    /\ replaceModeRepeat' = s.replaceModeRepeat
    /\ lineFindChar' = s.lineFindChar
    /\ lineFindCharDirection' = s.lineFindCharDirection
    /\ selectionMode' = s.selectionMode
    /\ text' = s.text
    /\ cursor' = s.cursor
    /\ anchor' = s.anchor
    /\ clipboard' = s.clipboard
    /\ undoStack' = s.undoStack
    /\ undoKept' = s.undoKept
    /\ startLen' = startLen

InitTracking(doc, kept) ==
    \E s \in {Constructed(doc)} :
       /\ mode = s.mode
       /\ readOnly = s.readOnly
       /\ caretStyle = s.caretStyle
       /\ prevWasEscapeFirst = s.prevWasEscapeFirst
       /\ numberList = s.numberList
       /\ replaceModeRepeat = s.replaceModeRepeat
       /\ lineFindChar = s.lineFindChar
       /\ lineFindCharDirection = s.lineFindCharDirection
       /\ selectionMode = s.selectionMode
       /\ text = s.text
       /\ cursor = s.cursor
       /\ anchor = s.anchor
       /\ clipboard = s.clipboard
       /\ undoStack = s.undoStack
       /\ undoKept = kept
       /\ startLen = Len(doc)
       /\ last = [op |-> "init", key |-> "", text |-> "", mods |-> "No",
                  emitted |-> s.emitted, issued |-> s.issued, branch |-> s.branch,
                  undoDepth |-> s.undoDepth, maxUndoDepth |-> s.maxUndoDepth,
                  wroteReadOnly |-> s.wroteReadOnly,
                  changedReadOnly |-> s.changedReadOnly, process |-> s.process,
                  positionChanged |-> s.positionChanged,
                  before |-> <<>>, follows |-> ""]
       /\ typed = <<>>
       /\ chordBase = <<>>

\* the undo history is followed only where a key sequence can undo
InitWith(doc) == InitTracking(doc, 0)

Init == InitWith(InitText)

\* one key event, handled to completion
\* the keys of the indentation commands; only SpecIndent sends them
IndentEvents == {Ev(KeyOf(l), l, "Shift") : l \in {">", "<"}}

KeyPressEvent(e) ==
    /\ e \in Events \cup IndentEvents
    /\ \E s \in {Call("keyPressEvent", Fields, <<e>>)} :
          /\ \/ Len(s.text) <= Max(MaxLen, startLen)
             \/ Len(s.text) <= Len(text)
             \/ (undoStack # <<>> /\ s.text = undoStack[Len(undoStack)])
          /\ Len(s.numberList) <= MaxDigits
          /\ IntOfDigits(s.numberList) <= MaxCount
          /\ Len(TypedAfter(mode, e)) <= MaxDigits
          /\ Store(s)
          /\ last' = Did("key", e, s)
          /\ typed' = TypedAfter(mode, e)
          /\ chordBase' = ChordBaseAfter(s)

\* setMode called from outside the key handler (it is a public method)
SetModeCall(m) ==
    \E s \in {Took(SetMode(Fields, m), "setMode")} :
       /\ Store(s)
       /\ last' = Did("setMode", Ev(m, "", "No"), s)
       /\ typed' = <<>>
       /\ chordBase' = <<>>

\* ------------------------------------------------------ the key streams
Plain(l) == Ev(KeyOf(l), l, "No")
Shifted(l) == Ev(KeyOf(l), l, "Shift")
Digit(k) == Ev(k, NUMSETKEYS[k], "No")
Escape == Ev("Key_Escape", "ESC", "No")
Return == Ev("Key_Return", "CR", "No")
Space == Ev("Key_Space", " ", "No")
Backspace == Ev("Key_Backspace", "BS", "No")
BareModifiers ==
    {Ev("Key_Shift", "", "No"), Ev("Key_Shift", "", "Shift"),
     Ev("Key_Alt", "", "No"), Ev("Key_Alt", "", "Alt"),
     Ev("Key_Control", "", "No"), Ev("Key_Control", "", "Control")}

\* keys typed in Command, ReplaceChar and FindChar mode
OtherModeKeys ==
    IF mode = "Command" THEN {Escape, Return, Plain("a")}
    ELSE {Escape, Plain("a"), Ev("Key_Shift", "", "No")}

\* the mode machine: every key that changes the mode, a count and a motion
ModeMovementKeys ==
    {Plain(l) : l \in {"t", "a", "o", "c", "r", "f", "l", "z"}}
    \cup {Shifted(l) : l \in {"A", "I", "O", "C", "F"}}
    \cup {Space, Escape, Return, Digit("Key_1"), Ev("Key_Shift", "", "Shift")}
ModeTypingKeys == {Escape, Plain("k"), Plain("j")}

ModeKeys ==
    IF mode = "Movement" THEN ModeMovementKeys
    ELSE IF mode = "Typing" THEN ModeTypingKeys ELSE OtherModeKeys

Next == \E e \in ModeKeys : KeyPressEvent(e)

Spec == Init /\ [][Next]_vars

\* the mode machine with setMode also called from outside
NextApi ==
    \/ \E e \in ModeKeys : KeyPressEvent(e)
    \/ \E m \in Modes : SetModeCall(m)

SpecApi == Init /\ [][NextApi]_vars

\* the escape chord: every kind of key in Typing mode, entered by t or C
ChordTypingKeys ==
    {Escape, Backspace, Plain("k"), Plain("j"), Plain("a"), Ev("Key_F1", "", "No"),
     Ev("Key_K", "k", "Alt"), Ev("Key_K", "", "Alt"), Ev("Key_J", "j", "Alt"),
     Ev("Key_L", "", "Alt"), Ev("Key_E", "", "Alt"),
     Ev("Key_K", "CTL", "Control"), Ev("Key_K", "K", "ControlShift")}
    \cup BareModifiers
ChordMovementKeys == {Plain("t"), Shifted("C"), Plain("l")}

ChordKeys ==
    IF mode = "Movement" THEN ChordMovementKeys
    ELSE IF mode = "Typing" THEN ChordTypingKeys ELSE OtherModeKeys

NextChord == \E e \in ChordKeys : KeyPressEvent(e)

SpecChord == Init /\ [][NextChord]_vars

\* the number prefix: digits, commands that read it, keys that match nothing
PrefixMovementKeys ==
    {Digit(k) : k \in DOMAIN NUMSETKEYS}
    \cup {Plain(l) : l \in {"l", "w", "g", "z", "r", "t", "f"}}
    \cup {Shifted("W"), Shifted("K"), Escape, Space, Ev("Key_F1", "", "No"),
          Ev("Key_E", "e", "Alt"), Ev("Key_E", "", "Alt"), Ev("Key_I", "", "Alt"),
          Ev("Key_K", "CTL", "Control"), Ev("Key_K", "K", "ControlShift")}
    \cup BareModifiers

PrefixKeys ==
    IF mode = "Movement" THEN PrefixMovementKeys
    ELSE IF mode = "Typing" THEN {Escape, Plain("a")} ELSE OtherModeKeys

NextPrefix == \E e \in PrefixKeys : KeyPressEvent(e)

SpecPrefix == Init /\ [][NextPrefix]_vars

\* counts: digit keys and the repeatable motions, nothing else
CountKeys ==
    {Digit(k) : k \in DOMAIN NUMSETKEYS}
    \cup {Plain(l) : l \in {"j", "l", "w", "b", "e"}}
    \cup {Shifted(l) : l \in {"W", "E", "B"}}

NextCount == \E e \in CountKeys : KeyPressEvent(e)

\* a document with words, punctuation and two lines for the motions
CountText == <<"a", "b", " ", ".", "a", NL, " ", "b">>

InitCount == InitWith(CountText)

SpecCount == InitCount /\ [][NextCount]_vars

\* replace-char: r with and without a count, anywhere in a two-line document
ReplaceMovementKeys ==
    {Digit(k) : k \in DOMAIN NUMSETKEYS}
    \cup {Plain(l) : l \in {"r", "l", "k"}}

ReplaceKeys == IF mode = "Movement" THEN ReplaceMovementKeys ELSE OtherModeKeys

NextReplace == \E e \in ReplaceKeys : KeyPressEvent(e)

ReplaceText == <<"b", "b", "b", NL, "b">>

InitReplace == InitWith(ReplaceText)

SpecReplace == InitReplace /\ [][NextReplace]_vars

\* join and undo: J with and without a count on three lines, then u
JoinKeys ==
    {Digit("Key_1"), Digit("Key_3"), Plain("k"), Plain("i"), Plain("l"),
     Shifted("J"), Plain("u")}

JoinText == <<"a", " ", NL, " ", "b", NL, "c", NL>>

SpecJoin == InitTracking(JoinText, MaxUndo) /\ [][\E e \in JoinKeys : KeyPressEvent(e)]_vars

\* selections and the clipboard: v, V, the yank, copy and cut commands, and
\* d, c and y with and without a count
SelectKeys ==
    IF mode = "Movement"
    THEN {Digit("Key_1"), Plain("l"), Plain("k"), Plain("v"), Shifted("V"),
          Plain("y"), Shifted("Y"), Plain("x"), Plain("d"), Plain("c"),
          Ev("Key_C", "CTL", "Control")}
    ELSE {Escape}

SelectText == <<"a", "b", NL, "c">>

SpecSelect == InitWith(SelectText) /\ [][\E e \in SelectKeys : KeyPressEvent(e)]_vars

\* find-char: f and F with two characters, the repeats ; and , and motions
FindKeys ==
    IF mode = "Movement"
    THEN {Plain(l) : l \in {"f", ";", ",", "l", "j", "k"}} \cup {Shifted("F")}
    ELSE {Escape, Plain("a"), Plain("b")}

FindText == <<"a", "b", "a", "b", NL, "a">>

SpecFind == InitWith(FindText) /\ [][\E e \in FindKeys : KeyPressEvent(e)]_vars

\* WORD motions: W, E, B and Alt+B with and without a count, and l, j to
\* reach every offset of the two-line document
WORDKeys ==
    {Digit("Key_1"), Digit("Key_3"), Plain("l"), Plain("j"),
     Shifted("W"), Shifted("E"), Shifted("B"), Ev("Key_B", "", "Alt")}

SpecWORD == InitWith(CountText) /\ [][\E e \in WORDKeys : KeyPressEvent(e)]_vars

\* counts limited by the number of lines: digits, line and page motions, g, J
ClampKeys ==
    {Digit(k) : k \in DOMAIN NUMSETKEYS}
    \cup {Plain("i"), Plain("k"), Plain("g"), Shifted("J"),
          Ev("Key_I", "CTL", "Control"), Ev("Key_K", "CTL", "Control")}

SpecClamp == InitWith(JoinText) /\ [][\E e \in ClampKeys : KeyPressEvent(e)]_vars

\* insert-line: o and O anywhere in a two-line document, after x made room
InsertKeys ==
    IF mode = "Movement"
    THEN {Plain("l"), Plain("k"), Plain("i"), Plain("x"), Plain("o"), Shifted("O")}
    ELSE {Escape}

InsertLineText == <<"a", "b", NL, "c", "d">>

SpecInsert == InitWith(InsertLineText) /\ [][\E e \in InsertKeys : KeyPressEvent(e)]_vars

\* the indentation commands, on a document whose first line is indented
IndentKeys ==
    {Shifted(">"), Shifted("<"), Plain("l"), Plain("k"), Plain("i"), Plain("x"),
     Digit("Key_1"), Digit("Key_3")}

IndentText == <<TAB, "a", NL, "b">>

SpecIndent == InitWith(IndentText) /\ [][\E e \in IndentKeys : KeyPressEvent(e)]_vars

\* ================================================================ claims
KeyStep == last'.op = "key"
PlainStep == KeyStep /\ last'.mods = "No"
BareModifierKeys == {"Key_Shift", "Key_Alt", "Key_Control"}

\* C1: after every key event the buffer is writable if and only if the mode
\* is Typing.
C1_WritableIffTyping == (~readOnly) <=> (mode = "Typing")

C3_ChordOnlyAfterFirstKey ==
    [][(/\ mode = "Typing" /\ PlainStep /\ last'.text = ESCAPESECOND
        /\ ~(last.branch = "typing.first" /\ last.mods = "No"))
       => /\ mode' = "Typing"
          /\ last'.process
          /\ last'.issued = NoneIssued]_vars

\* C4: in Typing mode the first chord key followed by a key other than the
\* second chord key leaves the mode Typing and both characters in the buffer.
C4_BothCharactersRemain ==
    [][(/\ mode = "Typing" /\ last.branch = "typing.first" /\ last.mods = "No"
        /\ PlainStep /\ last'.text \in {"a", ESCAPEFIRST})
       => /\ mode' = "Typing"
          /\ cursor > 0
          /\ text = InsertText(chordBase, cursor - 1, <<ESCAPEFIRST>>)
          /\ text' = InsertText(text, cursor, <<last'.text>>)]_vars

\* C5: in Movement mode, digit keys d1..dn (d1 not 0) followed by a
\* repeatable motion issue the motion's primitive int(d1..dn) times, and once
\* when no digit was typed.
MotionPrimitive(branch) ==
    CASE branch = "move.j" -> "CHARLEFT"
      [] branch = "move.l" -> "CHARRIGHT"
      [] branch = "move.w" -> "WORDRIGHT"
      [] branch = "move.b" -> "WORDLEFT"
      [] branch = "move.e" -> "WORDRIGHTEND"
      [] branch \in {"move.W", "move.E", "move.B"} -> "findWORDPosition"
MotionBranches == {"move.j", "move.l", "move.w", "move.b", "move.e",
                   "move.W", "move.E", "move.B"}
TypedCount == IF typed = <<>> THEN 1 ELSE IntOfDigits(typed)

C5_MotionRepeatsTypedCount ==
    [][(/\ mode = "Movement" /\ KeyStep /\ last'.branch \in MotionBranches
        /\ (typed = <<>> \/ typed[1] # "0"))
       => /\ last'.issued[MotionPrimitive(last'.branch)] = TypedCount
          /\ last'.branch = "move.W" => last'.issued["GOTOPOS"] <= TypedCount
          /\ last'.branch \in {"move.E", "move.B"}
                => last'.issued["GOTOPOS"] <= 2 * TypedCount]_vars

C5_Witness ==
    /\ last.branch = "move.l" /\ last.issued["CHARRIGHT"] = 13
    /\ cursor = Len(text)

\* C6: after every key event that is not a digit contribution the number
\* prefix is empty (stated for the keys that carry text, such as Escape or an
\* unassigned letter in Movement mode).
C6_PrefixClearedAfterNonDigitKey ==
    (last.op = "key" /\ last.text # "" /\ last.branch # "move.digit")
        => numberList = <<>>

\* C7: in Movement mode a key event for a bare modifier key leaves the number
\* prefix unchanged, whichever modifier state is reported with it.
C7_BareModifierKeepsPrefix ==
    [][(/\ mode = "Movement" /\ KeyStep
        /\ last'.key \in BareModifierKeys /\ last'.text = "")
       => numberList' = numberList]_vars

\* C8: the number prefix never begins with 0: a 0 typed in Movement mode on
\* an empty prefix is not stored and goes to the line start; a 0 typed on a
\* non-empty prefix is appended and moves nothing.
C8_NoLeadingZero ==
    /\ [](numberList = <<>> \/ numberList[1] # "0")
    /\ [][(/\ mode = "Movement" /\ PlainStep /\ last'.key = "Key_0"
           /\ last'.text = "0")
          => IF numberList = <<>>
             THEN /\ numberList' = <<>>
                  /\ last'.issued = [NoneIssued EXCEPT !["HOME"] = 1]
                  /\ cursor' = LineStart(text, cursor)
             ELSE /\ numberList' = Append(numberList, "0")
                  /\ last'.issued = NoneIssued
                  /\ cursor' = cursor]_vars

C8_Witness ==
    /\ numberList = <<"1", "0">> /\ last.key = "Key_0" /\ last.branch = "move.digit"

\* C9: setMode(m) with the mode already m changes nothing and notifies
\* nobody; every operation emits as many mode-changed notifications as the
\* mode changed (one or none), and a second setMode(m) in a row emits none.
C9_OneNotificationPerChange ==
    [][/\ last'.emitted = (IF mode' # mode THEN 1 ELSE 0)
       /\ (last'.op = "setMode" /\ last'.key = mode)
            => /\ UNCHANGED <<mode, readOnly, caretStyle>>
               /\ last'.emitted = 0
       /\ (last'.follows = "setMode.same")
            => /\ last'.emitted = 0
               /\ last.emitted <= 1]_vars

C9_Witness ==
    /\ last.op = "setMode" /\ last.follows = "setMode.same"
    /\ last.key = "Typing" /\ mode = "Typing" /\ last.emitted = 0

\* C10: after construction the mode is Movement, and in every reachable
\* state the mode is one of the five modes, never unset.
C10_ModeIsOneOfFive ==
    /\ mode \in Modes
    /\ last.op = "init" => mode = "Movement"

C10_Witness == mode = "ReplaceChar" /\ last.branch = "move.r"

\* C11: no grouped undo transaction is left open when a key event completes:
\* the commands that open one (o, O, J, x, X, replace-char) have it closed
\* again when the handler returns, and no handler nests or leaks a group.
UndoGroupBranches ==
    {"move.o", "move.O", "move.J", "move.x", "move.X", "replace.char",
     "move.indent", "move.unindent"}

C11_NoUndoGroupLeftOpen ==
    /\ last.undoDepth = 0
    /\ last.branch \in UndoGroupBranches => last.maxUndoDepth = 1
    /\ last.branch \notin UndoGroupBranches => last.maxUndoDepth = 0

C11_Witness ==
    /\ last.branch = "move.o" /\ last.maxUndoDepth = 1 /\ last.undoDepth = 0
    /\ mode = "Typing"

\* C12: every command that changes the text from a mode that keeps the
\* buffer read-only (Movement, ReplaceChar) makes each change while the
\* buffer is writable, and read-only is in force again once it is done.
C12_MutationsWhileWritable ==
    [][(last'.op = "key" /\ mode \in {"Movement", "ReplaceChar"} /\ text' # text)
         => /\ ~last'.changedReadOnly
            /\ ~last'.wroteReadOnly
            /\ mode' \in {"Movement", "ReplaceChar"} => readOnly']_vars

\* C13: replace-char with the cursor at column c, a repeat of n and at least
\* n characters left on the line overwrites columns c..c+n-1 with the typed
\* character, leaves every other character alone and ends at column c+n.
C13_ReplaceOverwritesAndAdvances ==
    [][(/\ last'.branch = "replace.char" /\ mode = "ReplaceChar"
        /\ LineEnd(text, cursor) - cursor >= replaceModeRepeat)
         => /\ text' = [q \in 1..Len(text) |->
                          IF q \in (cursor + 1)..(cursor + replaceModeRepeat)
                          THEN last'.text ELSE text[q]]
            /\ cursor' = cursor + replaceModeRepeat]_vars

\* C14: replace-char with a repeat larger than what is left of the line
\* overwrites only the characters that are there: the length of the text and
\* the number of lines stay, the terminator and later lines are untouched.
C14_ReplaceClampsAtEndOfLine ==
    [][(/\ last'.branch = "replace.char" /\ mode = "ReplaceChar"
        /\ LineEnd(text, cursor) - cursor < replaceModeRepeat)
         => /\ Len(text') = Len(text)
            /\ Lines(text') = Lines(text)
            /\ \A q \in 1..Len(text) :
                  text'[q] = IF q \in (cursor + 1)..LineEnd(text, cursor)
                             THEN last'.text ELSE text[q]]_vars

\* a line without its terminator, and a text without trailing whitespace
LineBody(t, line) == SubSeq(t, PosOfLine(t, line) + 1, LineEnd(t, PosOfLine(t, line)))

RECURSIVE RStrip(_)
RStrip(str) ==
    IF str # <<>> /\ str[Len(str)] \in {" ", NL}
    THEN RStrip(SubSeq(str, 1, Len(str) - 1)) ELSE str

\* C15: J on line k that has a next line makes line k the old line k without
\* trailing whitespace, one space, and the old line k+1 without leading
\* whitespace; the old line k+1 is gone and every other line is unchanged.
C15_JoinTrimsAndJoins ==
    [][(/\ last'.branch = "move.J" /\ numberList = <<>>
        /\ LineOfPos(text, cursor) + 1 < Lines(text))
         => LET k == LineOfPos(text, cursor)
            IN /\ Lines(text') = Lines(text) - 1
               /\ LineBody(text', k) = RStrip(LineBody(text, k)) \o <<" ">>
                                          \o LStrip(LineBody(text, k + 1))
               /\ \A j \in 0..(k - 1) : LineBody(text', j) = LineBody(text, j)
               /\ \A j \in (k + 2)..(Lines(text) - 1) :
                     LineBody(text', j - 1) = LineBody(text, j)]_vars

\* C16: a join is one undoable step: the single undo of a `u` pressed right
\* after J (with or without a count) brings back exactly the text the J key
\* event started from.
C16_JoinIsOneUndoStep ==
    [][(last.branch = "move.J" /\ last'.branch = "move.u" /\ numberList = <<>>)
         => text' = last.before]_vars

C16_Witness ==
    /\ last.branch = "move.u" /\ last.before = JoinText /\ text = JoinText
    /\ undoStack = <<>>

\* C17 as stated: in Movement mode with an empty prefix d, c and y are
\* no-ops: text, cursor, clipboard, selection mode and mode are unchanged.
RangeCommandStep ==
    /\ last'.op = "key" /\ mode = "Movement" /\ numberList = <<>>
    /\ last'.mods = "No" /\ last'.text \in {"d", "c", "y"}

C17_RangeCommandsNoOpWithoutPrefix ==
    [][RangeCommandStep
         => UNCHANGED <<text, cursor, clipboard, selectionMode, mode>>]_vars

\* C17 amended: in Movement mode with an empty prefix d and c are no-ops,
\* and y is a no-op when no selection is active (with a selection y copies
\* it and ends the selection): text, cursor, clipboard, selection mode and
\* mode are unchanged.
C17_RangeCommandsNoOpWithoutPrefixOrSelection ==
    [][(RangeCommandStep /\ (last'.text = "y" => selectionMode = "Disabled"))
         => UNCHANGED <<text, cursor, clipboard, selectionMode, mode>>]_vars

C17_Witness ==
    /\ last.branch \in {"move.d.none", "move.c.none"} /\ numberList = <<>>
    /\ selectionMode = "Character" /\ clipboard # <<>> /\ mode = "Movement"

\* C18: y, Y, Ctrl+C and x look at the selection mode first: with a
\* selection active they work on the selected text (the yanks copy it, x
\* cuts it) and the selection mode is Disabled when the command is done.
YankCopyCutStep ==
    /\ last'.op = "key" /\ mode = "Movement"
    /\ \/ last'.mods \in {"No", "Shift"} /\ last'.text \in {"y", "Y", "x"}
       \/ last'.mods = "Control" /\ last'.key = "Key_C"

C18_YankCopyCutUseSelection ==
    [][(YankCopyCutStep /\ selectionMode # "Disabled")
         => /\ selectionMode' = "Disabled"
            /\ clipboard' = IF SelectedText(Fields) = <<>> THEN clipboard
                             ELSE SelectedText(Fields)
            /\ text' = IF last'.text = "x"
                        THEN DeleteRange(text, SelectionStart(Fields), SelectionEnd(Fields))
                        ELSE text]_vars

\* offsets on the cursor's line, on one side of the cursor, that hold the
\* recorded character
RecordedCharHits(direction) ==
    {q \in 0..(Len(text) - 1) :
        /\ text[q + 1] = lineFindChar
        /\ LineOfPos(text, q) = LineOfPos(text, cursor)
        /\ IF direction = "Right" THEN q > cursor ELSE q < cursor}

\* the cursor went to the nearest such offset, or stayed where none is
SearchedIn(direction) ==
    IF RecordedCharHits(direction) = {} THEN cursor' = cursor
    ELSE /\ cursor' \in RecordedCharHits(direction)
         /\ \A q \in RecordedCharHits(direction) :
               IF direction = "Right" THEN cursor' <= q ELSE cursor' >= q

\* C19: `;` searches the recorded character in the direction recorded by the
\* last f / F and `,` in the opposite direction; neither changes the
\* recorded character or direction.
C19_RepeatKeepsRecordedSearch ==
    [][(last'.op = "key" /\ mode = "Movement" /\ last'.text \in {";", ","})
         => /\ UNCHANGED <<lineFindChar, lineFindCharDirection, text, mode>>
            /\ last'.text = ";" => SearchedIn(lineFindCharDirection)
            /\ last'.text = "," =>
                  SearchedIn(IF lineFindCharDirection = "Right" THEN "Left"
                             ELSE "Right")]_vars

C19_Witness ==
    /\ last.branch = "move.comma" /\ lineFindCharDirection = "Right"
    /\ lineFindChar = "a" /\ cursor = 2 /\ text = FindText

\* C20: when the WORD scanner finds nothing (-1) for W, E, B or Alt+B, the
\* command leaves the cursor where it is and issues no goto-position.
WORDScanDirection(branch) == IF branch \in {"move.W", "move.E"} THEN "Right" ELSE "Left"

C20_NotFoundDoesNotMove ==
    [][(/\ last'.branch \in {"move.W", "move.E", "move.B", "move.alt.b"}
        /\ FindWORDPosition(Fields, WORDScanDirection(last'.branch)) = -1)
         => /\ cursor' = cursor
            /\ last'.issued["GOTOPOS"] = 0]_vars

\* C21: a command that asks for the count limited by the line count repeats
\* min(typed count, number of lines) times, once when no digit was typed:
\* line up / down, page up / down and join.
ClampedPrimitive(branch) ==
    CASE branch = "move.i" -> "LINEUP"
      [] branch = "move.k" -> "LINEDOWN"
      [] branch = "move.ctrl.i" -> "PAGEUP"
      [] branch = "move.ctrl.k" -> "PAGEDOWN"
      [] branch = "move.J" -> "LINEUP"

C21_ClampedToLineCount ==
    [][(/\ last'.branch \in {"move.i", "move.k", "move.ctrl.i", "move.ctrl.k", "move.J"}
        /\ (typed = <<>> \/ typed[1] # "0"))
         => /\ last'.issued[ClampedPrimitive(last'.branch)]
                 = Min(TypedCount, Lines(text))
            /\ last'.branch = "move.J" =>
                  last'.issued["LINEDELETE"] = 2 * Min(TypedCount, Lines(text))]_vars

C21_Witness ==
    /\ last.branch = "move.k" /\ last.issued["LINEDOWN"] = 4 /\ Lines(text) = 4

\* C22: one Escape key event without a modifier brings the editor back to
\* Movement from Typing, Command, ReplaceChar and FindChar; the text is
\* unchanged and the pending replacement or find is not carried out.
C22_EscapeReturnsToMovement ==
    [][(/\ last'.op = "key" /\ last'.key = "Key_Escape" /\ last'.mods = "No"
        /\ mode # "Movement")
         => /\ mode' = "Movement"
            /\ text' = text
            /\ mode \in {"ReplaceChar", "FindChar"}
                  => UNCHANGED <<cursor, lineFindChar>>]_vars

C22_Witness ==
    /\ last.key = "Key_Escape" /\ last.branch = "replace.escape"
    /\ mode = "Movement" /\ text = InitText

\* C23: in Movement, Command, ReplaceChar and FindChar mode a key event that
\* no mapping of the mode matches is ignored: mode, text, cursor, selection
\* mode, the replace repeat and the find state are unchanged and the event
\* is not passed on to the component.
UnmappedBranches ==
    {"move.else", "move.alt.none", "move.ctrl.none", "move.none",
     "command.none", "replace.none", "find.none"}

C23_UnmappedKeyIgnored ==
    [][(last'.op = "key" /\ mode # "Typing" /\ last'.branch \in UnmappedBranches)
         => /\ UNCHANGED <<mode, text, cursor, selectionMode, replaceModeRepeat,
                           lineFindChar, lineFindCharDirection>>
            /\ ~last'.process]_vars

C23_Witness ==
    /\ last.branch = "command.none" /\ last.text = "a" /\ mode = "Command"
    /\ ~last.process /\ text = InitText

\* C24: the replace repeat is an integer of at least 1 in every reachable
\* state; `r` in Movement mode sets it to the count typed just before it
\* (1 without one), and it is 1 again once ReplaceChar mode has written its
\* character.
C24_ReplaceRepeatAtLeastOne ==
    /\ [](replaceModeRepeat \in Nat /\ replaceModeRepeat >= 1)
    /\ [][/\ (last'.branch = "move.r" /\ (typed = <<>> \/ typed[1] # "0"))
                => replaceModeRepeat' = TypedCount
          /\ last'.branch = "replace.char" => replaceModeRepeat' = 1]_vars

C24_Witness ==
    /\ last.branch = "replace.char" /\ replaceModeRepeat = 1
    /\ text = <<"a", "a", "a", NL, "b">> /\ cursor = 3

\* C25: `o` makes a new empty line right below the cursor's line and `O`
\* one right above it; the lines that were there keep their text and order,
\* the cursor is at column 0 of the new line and the mode is Typing.
C25_InsertLineBelowAbove ==
    [][(last'.branch \in {"move.o", "move.O"} /\ numberList = <<>>)
         => LET at == IF last'.branch = "move.o" THEN LineEnd(text, cursor)
                      ELSE LineStart(text, cursor)
            IN /\ text' = InsertText(text, at, <<NL>>)
               /\ cursor' = IF last'.branch = "move.o" THEN at + 1 ELSE at
               /\ mode' = "Typing"]_vars

\* C26: every change of mode made by a key event starts from Movement or
\* ends in Movement; no key goes from one of Typing, Command, ReplaceChar,
\* FindChar straight to another.
C26_ModeChangesThroughMovement ==
    [][(last'.op = "key" /\ mode' # mode)
         => (mode = "Movement" \/ mode' = "Movement")]_vars

C26_Witness ==
    /\ last.branch = "find.char" /\ mode = "Movement" /\ lineFindChar = "a"

\* C27: `g` with a count N puts the cursor on line N counted from 1, on the
\* last line when N is larger than the number of lines; without a count
\* cursor, text and mode stay as they are.
C27_GotoLine ==
    [][/\ (last'.op = "key" /\ mode = "Movement" /\ last'.text = "g"
            /\ typed # <<>> /\ typed[1] # "0")
            => /\ LineOfPos(text', cursor') = Min(TypedCount, Lines(text)) - 1
               /\ UNCHANGED <<text, mode>>
       /\ (last'.op = "key" /\ mode = "Movement" /\ last'.text = "g"
            /\ numberList = <<>>)
            => UNCHANGED <<cursor, text, mode>>]_vars

C27_Witness ==
    /\ last.branch = "move.g" /\ LineOfPos(text, cursor) = 3 /\ Lines(text) = 4
    /\ last.issued["GOTOLINE"] = 1
\* C28: the position-changed notification is emitted at the end of a key
\* event exactly when the cursor (line, column) after the event differs from
\* the cursor at its start; a command that does not move the cursor, the
\* indentation commands included, emits none.
CursorPlace == <<LineOfPos(text, cursor), cursor - LineStart(text, cursor)>>

C28_PositionChangedIffCursorMoved ==
    [][last'.op = "key" => (last'.positionChanged <=> CursorPlace' # CursorPlace)]_vars

\* C29: between key events the escape-chord flag prevWasEscapeFirst is true
\* only while the mode is Typing; in Movement, Command, ReplaceChar and
\* FindChar it is false.
C29_EscapeFirstOnlyInTyping ==
    mode # "Typing" => ~prevWasEscapeFirst

C29_Witness ==
    /\ last.branch = "typing.escape" /\ last.follows = "typing.first"
    /\ mode = "Movement" /\ ~prevWasEscapeFirst

\* C30: between key events the number prefix is non-empty only while the mode
\* is Movement: a key event that leaves the editor in Typing, Command,
\* ReplaceChar or FindChar leaves the prefix empty, and a key typed in one
\* of those modes adds no digit to it.
C30_PrefixOnlyInMovement ==
    /\ [](mode # "Movement" => numberList = <<>>)
    /\ [][(last'.op = "key" /\ mode # "Movement") => numberList' = <<>>]_vars

C30_Witness ==
    /\ last.branch = "move.r" /\ mode = "ReplaceChar"
    /\ numberList = <<>> /\ replaceModeRepeat = 3

\* C31: whenever the mode is not ReplaceChar, replaceModeRepeat equals 1:
\* leaving ReplaceChar by the replacement character or by Escape resets the
\* captured repeat count.
C31_RepeatIsOneOutsideReplaceChar ==
    mode # "ReplaceChar" => replaceModeRepeat = 1

====
